---- MODULE Spec2Model ----
(***************************************************************************)
(* Device discovery (modules/axdriver/src/drivers.rs): the DriverProbe     *)
(* trait, the drivers' probe operations and the igb DMA adapter.           *)
(*                                                                         *)
(* Two specifications:                                                     *)
(*   Spec     one discovery run: global pass, MMIO pass, PCI pass          *)
(*   SpecDma  the IgbHalImpl adapter over the kernel's coherent allocator  *)
(*            and physical/virtual mapping                                 *)
(***************************************************************************)
EXTENDS Integers, Sequences, FiniteSets, TLC

(***************************************************************************)
(* Bounds of the model                                                     *)
(***************************************************************************)
\* PCI functions the bus walker reports in one run
MaxFunctions == 2
\* registered drivers per device class
MaxPerClass == 2
\* board-configured MMIO regions
NumMmioRegions == 1

(***************************************************************************)
(* Program constants                                                       *)
(***************************************************************************)
\* 0x8086
INTEL_VEND == 32902
\* 0x10FB
INTEL_82599 == 4347
\* 0x10C9
INTEL_82576 == 4297
\* 0x100_0000, 16 MiB
RAMDISK_SIZE == 16777216
\* queue number and queue size handed to IxgbeNic / IgbNic
QN == 1
QS == 1024
\* the identifiers the test stubs of the ordering property match: 0x10D3
STUB_DEVICE == 4307

(***************************************************************************)
(* The kernel's physical/virtual mapping (axhal::mem)                      *)
(***************************************************************************)
PHYS_VIRT_OFFSET == 64

phys_to_virt(paddr) == paddr + PHYS_VIRT_OFFSET

virt_to_phys(vaddr) == vaddr - PHYS_VIRT_OFFSET

(***************************************************************************)
(* Data                                                                    *)
(***************************************************************************)
Classes == {"net", "block", "display"}

\* the drivers that need DMA, and the two stub drivers of the ordering
\* property; the virtio drivers (registered under their own cfg, probes
\* outside this file) are not enabled in the configurations modelled
DmaDrivers == {"IxgbeDriver", "IgbDriver"}
StubDrivers == {"StubFirst", "StubSecond"}

NetDrivers == DmaDrivers \cup StubDrivers
BlockDrivers == {"RamDiskDriver", "BcmSdhciDriver"}
DisplayDrivers == {}

\* BarInfo as PciRoot::bar_info(bdf, 0) reports it: Ok(Memory), Ok(IO) or Err
BarInfos ==
  { [kind |-> "Memory", address |-> 32, size |-> 16],
    [kind |-> "IO", address |-> 0, size |-> 0],
    [kind |-> "Err", address |-> 0, size |-> 0] }

\* DeviceFunctionInfo: the identifiers read from configuration space
VendorIds == {INTEL_VEND, 6900}
DeviceIds == {INTEL_82599, INTEL_82576, STUB_DEVICE}

DeviceFunctionInfos == [vendor_id : VendorIds, device_id : DeviceIds]

\* one enumerated function: its identifiers and what bar_info(bdf, 0) answers
Functions == [info : DeviceFunctionInfos, bar0 : BarInfos]

NoFn == [info |-> [vendor_id |-> 0, device_id |-> 0],
         bar0 |-> [kind |-> "Err", address |-> 0, size |-> 0]]

\* Option<AxDeviceEnum>, and the panic an unwrap/expect raises
NoneResult == [tag |-> "None", class |-> "none", base |-> 0, size |-> 0,
               queues |-> <<0, 0>>, initCalled |-> FALSE]

SomeResult(class, base, size, queues, initCalled) ==
  [tag |-> "Some", class |-> class, base |-> base, size |-> size,
   queues |-> queues, initCalled |-> initCalled]

PanicResult(initCalled) ==
  [tag |-> "Panic", class |-> "none", base |-> 0, size |-> 0,
   queues |-> <<0, 0>>, initCalled |-> initCalled]

\* AxDeviceEnum::from_net on the NIC that init returned, and
\* AxDeviceEnum::from_block
from_net(base, size, queues) == SomeResult("net", base, size, queues, TRUE)

from_block(size) == SomeResult("block", 0, size, <<0, 0>>, FALSE)

(***************************************************************************)
(* DriverProbe: the trait's defaults                                       *)
(***************************************************************************)
DriverProbe_probe_global == NoneResult

DefaultSomeMmio(mmio_base, mmio_size) ==
  SomeResult("block", mmio_base, mmio_size, <<0, 0>>, FALSE)
DriverProbe_probe_mmio(mmio_base, mmio_size) == NoneResult

DriverProbe_probe_pci(dev_info) == NoneResult

(***************************************************************************)
(* RamDiskDriver, BcmSdhciDriver                                           *)
(***************************************************************************)
RamDiskWrongSize == from_block(RAMDISK_SIZE \div 16)
RamDiskAsNet == SomeResult("net", 0, RAMDISK_SIZE, <<0, 0>>, FALSE)
RamDiskDriver_probe_global == from_block(RAMDISK_SIZE)

\* SDHCIDriver::try_new().ok().map(AxDeviceEnum::from_block)
BcmSdhciDriver_probe_global(tryNewOk) ==
  IF tryNewOk THEN from_block(0) ELSE NoneResult

(***************************************************************************)
(* IxgbeDriver::probe_pci, IgbDriver::probe_pci                            *)
(*   bar0:   what root.bar_info(bdf, 0) answers                            *)
(*   initOk: whether IxgbeNic::init / IgbNic::init returns Ok              *)
(***************************************************************************)
IxgbeIoFallback(bar0, dev_info, initOk) ==
  IF dev_info.vendor_id = INTEL_VEND /\ dev_info.device_id = INTEL_82599
  THEN CASE bar0.kind = "Err" -> PanicResult(FALSE)
         [] OTHER ->
              IF initOk
              THEN from_net(phys_to_virt(bar0.address),
                            bar0.size, <<QS, QN>>)
              ELSE PanicResult(TRUE)
  ELSE NoneResult
IxgbeDriver_probe_pci(bar0, dev_info, initOk) ==
  IF dev_info.vendor_id = INTEL_VEND /\ dev_info.device_id = INTEL_82599
  THEN CASE bar0.kind = "Err" -> PanicResult(FALSE)
         [] bar0.kind = "Memory" ->
              IF initOk
              THEN from_net(phys_to_virt(bar0.address),
                            bar0.size, <<QS, QN>>)
              ELSE PanicResult(TRUE)
         [] bar0.kind = "IO" -> NoneResult
  ELSE NoneResult

IgbVendorOnly(bar0, dev_info, initOk) ==
  IF dev_info.vendor_id = INTEL_VEND
  THEN CASE bar0.kind = "Err" -> PanicResult(FALSE)
         [] bar0.kind = "Memory" ->
              IF initOk
              THEN from_net(phys_to_virt(bar0.address),
                            bar0.size, <<QS, QN>>)
              ELSE PanicResult(TRUE)
         [] bar0.kind = "IO" -> NoneResult
  ELSE NoneResult
IgbDriver_probe_pci(bar0, dev_info, initOk) ==
  IF dev_info.vendor_id = INTEL_VEND /\ dev_info.device_id = INTEL_82576
  THEN CASE bar0.kind = "Err" -> PanicResult(FALSE)
         [] bar0.kind = "Memory" ->
              IF initOk
              THEN from_net(phys_to_virt(bar0.address),
                            bar0.size, <<QS, QN>>)
              ELSE PanicResult(TRUE)
         [] bar0.kind = "IO" -> NoneResult
  ELSE NoneResult

(***************************************************************************)
(* The two stub drivers of the ordering property: both match               *)
(* vendor 0x8086, device 0x10D3 and, like ixgbe, need a memory BAR0.       *)
(***************************************************************************)
Stub_probe_pci(bar0, dev_info) ==
  IF /\ dev_info.vendor_id = INTEL_VEND
     /\ dev_info.device_id = STUB_DEVICE
     /\ bar0.kind = "Memory"
  THEN SomeResult("net", phys_to_virt(bar0.address),
                  bar0.size, <<0, 0>>, FALSE)
  ELSE NoneResult

(***************************************************************************)
(* Static dispatch of the three operations on a registered driver          *)
(***************************************************************************)
probe_global(driver, tryNewOk) ==
  CASE driver = "RamDiskDriver" -> RamDiskDriver_probe_global
    [] driver = "BcmSdhciDriver" -> BcmSdhciDriver_probe_global(tryNewOk)
    [] OTHER -> DriverProbe_probe_global

probe_mmio(driver, mmio_base, mmio_size) ==
  DriverProbe_probe_mmio(mmio_base, mmio_size)

probe_pci(driver, bar0, dev_info, initOk) ==
  CASE driver = "IxgbeDriver" -> IxgbeDriver_probe_pci(bar0, dev_info, initOk)
    [] driver = "IgbDriver" -> IgbDriver_probe_pci(bar0, dev_info, initOk)
    [] driver \in StubDrivers -> Stub_probe_pci(bar0, dev_info)
    [] OTHER -> DriverProbe_probe_pci(dev_info)

(***************************************************************************)
(* Driver registry: per device class, the ordered list of enabled drivers  *)
(***************************************************************************)
InjectiveSeqs(S, n) ==
  UNION { { q \in [1..k -> S] : \A i, j \in 1..k : i # j => q[i] # q[j] }
          : k \in 0..n }

SeqRange(q) == { q[i] : i \in 1..Len(q) }

\* net_dev = "ixgbe" and net_dev = "igb" cannot be enabled together: each
\* block imports axhal::mem::phys_to_virt into the module, and the two
\* imports clash, so no build registers both IxgbeDriver and IgbDriver
NetRegistries ==
  { q \in InjectiveSeqs(NetDrivers, MaxPerClass) :
      ~({"IxgbeDriver", "IgbDriver"} \subseteq SeqRange(q)) }

Registries ==
  [net : NetRegistries,
   block : InjectiveSeqs(BlockDrivers, MaxPerClass),
   display : InjectiveSeqs(DisplayDrivers, MaxPerClass)]

\* the order in which a pass walks the registry
AllDrivers(reg) == reg.net \o reg.block \o reg.display

ClassOf(driver) ==
  CASE driver \in NetDrivers -> "net"
    [] driver \in BlockDrivers -> "block"
    [] OTHER -> "display"

IndexOf(q, x) == CHOOSE i \in 1..Len(q) : q[i] = x

MmioRegions == [i \in 1..NumMmioRegions |-> [base |-> 256 * i, size |-> 16]]

(***************************************************************************)
(* Discovery orchestrator                                                  *)
(***************************************************************************)
VARIABLES
  registry,   \* the driver registry, fixed before probing begins
  phase,      \* "global", "mmio", "pci", "done", or "panic"
  di,         \* position in AllDrivers(registry) of the next driver to try
  ri,         \* MMIO region being probed
  fi,         \* PCI functions enumerated so far
  cur,        \* PCI function being probed, NoFn between functions
  handles,    \* bound device handles, in the order collected
  log         \* the probe calls made for the current item, with results

dvars == <<registry, phase, di, ri, fi, cur, handles, log>>

\* state of the DMA adapter and of the allocator under it
VARIABLES
  live,         \* allocator: the blocks handed out, [info, layout]
  outstanding,  \* allocator: bytes handed out and not yet released
  mismatch,     \* allocator: a release that matched no block handed out
  held,         \* driver: the DMA buffer records it owns, [bus, cpu, size]
  last,         \* the last adapter call, its arguments and result
  apanic        \* the adapter panicked (an unwrap on Err / None)

avars == <<live, outstanding, mismatch, held, last, apanic>>

vars == <<dvars, avars>>

Handle(res, driver, pass, item, fn) ==
  [class |-> res.class, driver |-> driver, pass |-> pass, item |-> item,
   fn |-> fn, base |-> res.base, size |-> res.size, queues |-> res.queues]

LogEntry(res, driver, pass, fn) ==
  [driver |-> driver, pass |-> pass, tag |-> res.tag,
   initCalled |-> res.initCalled, fn |-> fn]

\* collect the handle of a successful probe
Collect(hs, res, driver, pass, item, fn) ==
  IF res.tag = "Some" THEN Append(hs, Handle(res, driver, pass, item, fn))
  ELSE hs

\* whether the PCI pass goes on to the next driver for the same function
NoShortCircuit(res) == res.tag # "Panic"
TryNextDriver(res) == res.tag = "None"

DInit ==
  /\ registry \in Registries
  /\ phase = "global"
  /\ di = 1
  /\ ri = 1
  /\ fi = 0
  /\ cur = NoFn
  /\ handles = <<>>
  /\ log = <<>>

\* global pass: probe_global of the next registered driver
GlobalProbe ==
  /\ UNCHANGED avars
  /\ phase = "global"
  /\ di <= Len(AllDrivers(registry))
  /\ \E tryNewOk \in BOOLEAN :
       LET driver == AllDrivers(registry)[di]
           res == probe_global(driver, tryNewOk)
       IN /\ handles' = Collect(handles, res, driver, "global", di, NoFn)
          /\ log' = Append(log, LogEntry(res, driver, "global", NoFn))
  /\ di' = di + 1
  /\ UNCHANGED <<registry, phase, ri, fi, cur>>

GlobalEnd ==
  /\ UNCHANGED avars
  /\ phase = "global"
  /\ di > Len(AllDrivers(registry))
  /\ phase' = "mmio"
  /\ di' = 1
  /\ log' = <<>>
  /\ UNCHANGED <<registry, ri, fi, cur, handles>>

\* MMIO pass: probe_mmio of the next registered driver on the current region
MmioProbe ==
  /\ UNCHANGED avars
  /\ phase = "mmio"
  /\ ri <= NumMmioRegions
  /\ di <= Len(AllDrivers(registry))
  /\ LET driver == AllDrivers(registry)[di]
         res == probe_mmio(driver, MmioRegions[ri].base, MmioRegions[ri].size)
     IN /\ handles' = Collect(handles, res, driver, "mmio", ri, NoFn)
        /\ log' = Append(log, LogEntry(res, driver, "mmio", NoFn))
        /\ IF TryNextDriver(res) THEN /\ di' = di + 1
                                      /\ ri' = ri
           ELSE /\ di' = 1
                /\ ri' = ri + 1
  /\ UNCHANGED <<registry, phase, fi, cur>>

MmioNextRegion ==
  /\ UNCHANGED avars
  /\ phase = "mmio"
  /\ ri <= NumMmioRegions
  /\ di > Len(AllDrivers(registry))
  /\ ri' = ri + 1
  /\ di' = 1
  /\ log' = <<>>
  /\ UNCHANGED <<registry, phase, fi, cur, handles>>

MmioEnd ==
  /\ UNCHANGED avars
  /\ phase = "mmio"
  /\ ri > NumMmioRegions
  /\ phase' = "pci"
  /\ di' = 1
  /\ log' = <<>>
  /\ UNCHANGED <<registry, ri, fi, cur, handles>>

\* PCI pass: the bus walker reports the next function
PciEnumerate ==
  /\ UNCHANGED avars
  /\ phase = "pci"
  /\ cur = NoFn
  /\ fi < MaxFunctions
  /\ \E f \in Functions : cur' = f
  /\ fi' = fi + 1
  /\ di' = 1
  /\ log' = <<>>
  /\ UNCHANGED <<registry, phase, ri, handles>>

\* PCI pass: probe_pci of the next registered driver on the current function
PciProbe ==
  /\ UNCHANGED avars
  /\ phase = "pci"
  /\ cur # NoFn
  /\ di <= Len(AllDrivers(registry))
  /\ \E initOk \in BOOLEAN :
       LET driver == AllDrivers(registry)[di]
           res == probe_pci(driver, cur.bar0, cur.info, initOk)
       IN /\ handles' = Collect(handles, res, driver, "pci", fi, cur)
          /\ log' = Append(log, LogEntry(res, driver, "pci", cur))
          /\ phase' = IF res.tag = "Panic" THEN "panic" ELSE "pci"
          /\ IF TryNextDriver(res) THEN /\ di' = di + 1
                                        /\ cur' = cur
             ELSE /\ di' = di
                  /\ cur' = IF res.tag = "Panic" THEN cur ELSE NoFn
  /\ UNCHANGED <<registry, ri, fi>>

\* PCI pass: every registered driver declined the current function
PciSkip ==
  /\ UNCHANGED avars
  /\ phase = "pci"
  /\ cur # NoFn
  /\ di > Len(AllDrivers(registry))
  /\ cur' = NoFn
  /\ UNCHANGED <<registry, phase, di, ri, fi, handles, log>>

\* PCI pass: the bus walker has no more functions
PciEnd ==
  /\ UNCHANGED avars
  /\ phase = "pci"
  /\ cur = NoFn
  /\ phase' = "done"
  /\ UNCHANGED <<registry, di, ri, fi, cur, handles, log>>

(***************************************************************************)
(* IgbHalImpl: the DMA address-translation adapter                         *)
(***************************************************************************)
\* allocations the coherent allocator can hold at once
NumSlots == 2
\* bytes of coherent memory the allocator owns
PoolBytes == 4
\* largest ordinary request size
MaxSize == 2
\* physical addresses of the mapped register window: 0..MaxPhys
MaxPhys == 3

\* isize::MAX, which bounds a Layout's size rounded up to its alignment
\* (the value of a 32-bit target, the largest integer TLC holds; the
\* comparison is the same at every width)
ISIZE_MAX == 2147483647
\* the alignment dma_alloc and dma_dealloc ask for
DMA_ALIGN == 8
\* NonNull::<u8>::dangling(): the address align_of::<u8>()
DANGLING == 1

Sizes == (0..MaxSize) \cup {ISIZE_MAX - 7, ISIZE_MAX - 6, ISIZE_MAX}

\* Layout::from_size_align(size, align): Err when size, rounded up to
\* align, exceeds isize::MAX
Layout_from_size_align(size, align) ==
  IF size > ISIZE_MAX - (align - 1)
  THEN [ok |-> FALSE, size |-> 0, align |-> 0]
  ELSE [ok |-> TRUE, size |-> size, align |-> align]

NoLayout == [ok |-> FALSE, size |-> 0, align |-> 0]

\* DMAInfo { cpu_addr, bus_addr }
DMAInfo(cpu_addr, bus_addr) == [cpu_addr |-> cpu_addr, bus_addr |-> bus_addr]

NoDMAInfo == DMAInfo(0, 0)

(* The kernel's coherent allocator (axdma), instrumented: `live' holds the *)
(* blocks handed out, `outstanding' their bytes.                           *)
SlotPhys(slot) == 128 + 16 * slot

SlotInfo(slot) == DMAInfo(phys_to_virt(SlotPhys(slot)), SlotPhys(slot))

\* the results alloc_coherent(layout) can have: Err, or Ok of a free block
alloc_coherent(layout, liveBlocks, bytesOut) ==
  { [ok |-> FALSE, info |-> NoDMAInfo] } \cup
  { [ok |-> TRUE, info |-> SlotInfo(slot)] :
      slot \in { t \in 1..NumSlots :
                   /\ layout.size <= PoolBytes - bytesOut
                   /\ \A b \in liveBlocks : b.info # SlotInfo(t) } }

\* dma_alloc: the layout it requests, and what it returns for the
\* allocator's answer
dma_alloc_layout(size) == Layout_from_size_align(size, DMA_ALIGN)

DmaAllocExpect(res) ==
  IF res.ok
  THEN [tag |-> "Ret", bus |-> res.info.bus_addr, cpu |-> res.info.cpu_addr]
  ELSE [tag |-> "Panic", bus |-> 0, cpu |-> 0]
dma_alloc(res) ==
  IF res.ok
  THEN [tag |-> "Ret", bus |-> res.info.bus_addr, cpu |-> res.info.cpu_addr]
  ELSE [tag |-> "Ret", bus |-> 0, cpu |-> DANGLING]

\* dma_dealloc: the layout and DMAInfo it hands to dealloc_coherent, and
\* its return value
dma_dealloc_layout(size) == Layout_from_size_align(size, DMA_ALIGN)

DmaDeallocSwapped(paddr, vaddr) == DMAInfo(paddr, vaddr)
dma_dealloc_info(paddr, vaddr) == DMAInfo(vaddr, paddr)

dma_dealloc_ret == 0

\* mmio_phys_to_virt: NonNull::new(phys_to_virt(paddr)).unwrap()
mmio_phys_to_virt(paddr, size) ==
  IF phys_to_virt(paddr) = 0 THEN [tag |-> "Panic", val |-> 0]
  ELSE [tag |-> "Ret", val |-> phys_to_virt(paddr)]

MmioVirtToPhysPlusSize(vaddr, size) ==
  [tag |-> "Ret", val |-> virt_to_phys(vaddr) + size]
mmio_virt_to_phys(vaddr, size) == [tag |-> "Ret", val |-> virt_to_phys(vaddr)]


Call(op, size, a1, a2, tag, r1, r2, layout, allocCalled, allocRes, pre) ==
  [op |-> op, size |-> size, a1 |-> a1, a2 |-> a2, tag |-> tag,
   r1 |-> r1, r2 |-> r2, layout |-> layout, allocCalled |-> allocCalled,
   allocRes |-> allocRes, pre |-> pre]

NoAllocRes == [ok |-> FALSE, info |-> NoDMAInfo]

Bookkeeping == [live |-> live, outstanding |-> outstanding]

NoCall ==
  Call("none", 0, 0, 0, "Ret", 0, 0, NoLayout, FALSE, NoAllocRes,
       [live |-> {}, outstanding |-> 0])

AInit ==
  /\ live = {}
  /\ outstanding = 0
  /\ mismatch = FALSE
  /\ held = {}
  /\ last = NoCall
  /\ apanic = FALSE

\* dma_alloc(size)
DmaAlloc ==
  /\ UNCHANGED dvars
  /\ ~apanic
  /\ \E size \in Sizes :
       LET layout == dma_alloc_layout(size)
       IN IF ~layout.ok
          THEN /\ apanic' = TRUE
               /\ last' = Call("dma_alloc", size, 0, 0, "Panic", 0, 0,
                               layout, FALSE, NoAllocRes, Bookkeeping)
               /\ UNCHANGED <<live, outstanding, held>>
          ELSE \E res \in alloc_coherent(layout, live, outstanding) :
                 LET ret == dma_alloc(res)
                 IN /\ live' = IF res.ok
                               THEN live \cup {[info |-> res.info,
                                                layout |-> layout]}
                               ELSE live
                    /\ outstanding' = IF res.ok
                                      THEN outstanding + layout.size
                                      ELSE outstanding
                    \* the driver keeps what it does not detect as the
                    \* sentinel
                    /\ held' = IF ret.tag = "Panic" \/ ret.bus = 0 THEN held
                               ELSE held \cup {[bus |-> ret.bus,
                                                cpu |-> ret.cpu,
                                                size |-> size]}
                    /\ last' = Call("dma_alloc", size, 0, 0, ret.tag,
                                    ret.bus, ret.cpu, layout, TRUE, res,
                                    Bookkeeping)
                    /\ apanic' = (ret.tag = "Panic")
  /\ UNCHANGED <<mismatch>>

\* dma_dealloc(paddr, vaddr, size) on a record the driver holds
DmaDealloc ==
  /\ UNCHANGED dvars
  /\ ~apanic
  /\ \E rec \in held :
       LET layout == dma_dealloc_layout(rec.size)
           info == dma_dealloc_info(rec.bus, rec.cpu)
           block == [info |-> info, layout |-> layout]
       IN IF ~layout.ok
          THEN /\ apanic' = TRUE
               /\ last' = Call("dma_dealloc", rec.size, rec.bus, rec.cpu,
                               "Panic", 0, 0, layout, FALSE, NoAllocRes,
                               Bookkeeping)
               /\ UNCHANGED <<live, outstanding, mismatch, held>>
          ELSE \* dealloc_coherent(dma_info, layout)
               /\ live' = { b \in live : b.info.cpu_addr # info.cpu_addr }
               /\ outstanding' = outstanding - layout.size
               /\ mismatch' = (mismatch \/ block \notin live)
               /\ held' = held \ {rec}
               /\ last' = Call("dma_dealloc", rec.size, rec.bus, rec.cpu,
                               "Ret", dma_dealloc_ret, 0, layout, TRUE,
                               [ok |-> TRUE, info |-> info], Bookkeeping)
               /\ apanic' = apanic

\* mmio_phys_to_virt(paddr, size) on an address of the mapped window
MmioPhysToVirt ==
  /\ UNCHANGED dvars
  /\ ~apanic
  /\ \E paddr \in 0..MaxPhys, size \in 0..MaxSize :
       LET r == mmio_phys_to_virt(paddr, size)
       IN /\ last' = Call("mmio_phys_to_virt", size, paddr, 0, r.tag, r.val,
                          0, NoLayout, FALSE, NoAllocRes, Bookkeeping)
          /\ apanic' = (r.tag = "Panic")
  /\ UNCHANGED <<live, outstanding, mismatch, held>>

\* mmio_virt_to_phys(vaddr, size) on the pointer mmio_phys_to_virt returned
MmioVirtToPhys ==
  /\ UNCHANGED dvars
  /\ ~apanic
  /\ last.op = "mmio_phys_to_virt"
  /\ \E size \in 0..MaxSize :
       LET r == mmio_virt_to_phys(last.r1, size)
       IN last' = Call("mmio_virt_to_phys", size, last.r1, last.a1, r.tag,
                       r.val, 0, NoLayout, FALSE, NoAllocRes, Bookkeeping)
  /\ UNCHANGED <<live, outstanding, mismatch, held, apanic>>

\* wait_until(duration): busy-waits, then Ok(())
WaitUntil ==
  /\ UNCHANGED dvars
  /\ ~apanic
  /\ \E duration \in 0..1 :
       last' = Call("wait_until", 0, duration, 0, "Ret", 0, 0, NoLayout,
                    FALSE, NoAllocRes, Bookkeeping)
  /\ UNCHANGED <<live, outstanding, mismatch, held, apanic>>

(***************************************************************************)
(* Specifications                                                          *)
(***************************************************************************)
Init == DInit /\ AInit

Next ==
  \/ GlobalProbe
  \/ GlobalEnd
  \/ MmioProbe
  \/ MmioNextRegion
  \/ MmioEnd
  \/ PciEnumerate
  \/ PciProbe
  \/ PciSkip
  \/ PciEnd

Spec == Init /\ [][Next]_vars

InitDma ==
  /\ AInit
  /\ DInit
  /\ registry = [net |-> <<>>, block |-> <<>>, display |-> <<>>]

NextDma ==
  \/ DmaAlloc
  \/ DmaDealloc
  \/ MmioPhysToVirt
  \/ MmioVirtToPhys
  \/ WaitUntil

SpecDma == InitDma /\ [][NextDma]_vars

(***************************************************************************)
(* Properties                                                              *)
(***************************************************************************)
\* the (vendor_id, device_id) pair each PCI driver is registered for
MatchPair(driver) ==
  CASE driver = "IxgbeDriver" ->
         [vendor_id |-> INTEL_VEND, device_id |-> INTEL_82599]
    [] driver = "IgbDriver" ->
         [vendor_id |-> INTEL_VEND, device_id |-> INTEL_82576]
    [] driver \in StubDrivers ->
         [vendor_id |-> INTEL_VEND, device_id |-> STUB_DEVICE]
    [] OTHER -> [vendor_id |-> 0, device_id |-> 0]

Registered == { AllDrivers(registry)[i] : i \in 1..Len(AllDrivers(registry)) }

HandlesOf(class) == { i \in 1..Len(handles) : handles[i].class = class }

HandlesIn(pass) == { i \in 1..Len(handles) : handles[i].pass = pass }

\* C1: a PCI function whose BAR0 is I/O-mapped gets "no match" from the
\* ixgbe and igb probes, without hardware initialization, even when its
\* identifiers are the driver's; no network handle exists for it.
C1_IoBarNeverBound ==
  /\ \A i \in 1..Len(log) :
       (log[i].pass = "pci" /\ log[i].fn.bar0.kind = "IO"
          /\ log[i].driver \in DmaDrivers)
       => (log[i].tag = "None" /\ ~log[i].initCalled)
  /\ \A i \in HandlesIn("pci") :
       handles[i].fn.bar0.kind = "IO" => handles[i].class # "net"

C1_Witness ==
  /\ phase = "done"
  /\ \E i \in 1..Len(log) :
       /\ log[i].driver = "IxgbeDriver"
       /\ log[i].fn.info = MatchPair("IxgbeDriver")
       /\ log[i].fn.bar0.kind = "IO"
       /\ log[i].tag = "None"
  /\ \A i \in HandlesIn("pci") : handles[i].item # fi

\* C2: a PCI function whose (vendor_id, device_id) pair differs in either
\* field from a driver's pair gets "no match" from that driver; when it
\* differs from every registered driver's pair the function is skipped
\* without error and no handle is produced for it.
C2_ExactMatch ==
  /\ \A i \in 1..Len(log) :
       (log[i].pass = "pci" /\ log[i].fn.info # MatchPair(log[i].driver))
       => (log[i].tag = "None" /\ ~log[i].initCalled)
  /\ \A i \in HandlesIn("pci") :
       /\ handles[i].fn.info = MatchPair(handles[i].driver)
       /\ handles[i].driver \in Registered
  /\ (phase = "panic"
        => \E d \in Registered : cur.info = MatchPair(d))

C2_Witness ==
  /\ phase = "done"
  /\ fi = 2
  /\ registry.net = <<"IgbDriver">>
  /\ Len(log) = Len(AllDrivers(registry))
  /\ \A i \in 1..Len(log) :
       /\ log[i].tag = "None"
       /\ log[i].fn.info.vendor_id = INTEL_VEND
       /\ log[i].fn.info.device_id = INTEL_82599
       /\ log[i].fn.bar0.kind = "Memory"
  /\ handles = <<>>

\* C3: when a probe has recognised a function and hardware initialization
\* then fails, the failure stays local: no handle for the device, and the
\* discovery run is not aborted.
C3_InitFailureStaysLocal ==
  \A i \in 1..Len(log) :
    (log[i].initCalled /\ log[i].tag # "Some")
    => /\ phase # "panic"
       /\ \A h \in HandlesIn("pci") : handles[h].item # fi

\* C5: drivers are tried in registry order and the first successful
\* probe_pci ends the attempts for the function: no driver registered
\* before the one that bound it would have matched, none is probed after
\* it, and the function has exactly one handle.
C5_FirstRegisteredWins ==
  /\ \A i \in HandlesIn("pci") :
       \A j \in 1..(IndexOf(AllDrivers(registry), handles[i].driver) - 1) :
         \A initOk \in BOOLEAN :
           probe_pci(AllDrivers(registry)[j], handles[i].fn.bar0,
                     handles[i].fn.info, initOk).tag # "Some"
  /\ \A i, j \in HandlesIn("pci") :
       handles[i].item = handles[j].item => i = j
  /\ (phase \in {"pci", "done", "panic"})
       => \A k \in 1..Len(log) :
            /\ log[k].driver = AllDrivers(registry)[k]
            /\ (log[k].tag = "Some"
                  => /\ k = Len(log)
                     /\ \E i \in HandlesIn("pci") :
                          /\ handles[i].item = fi
                          /\ handles[i].driver = log[k].driver)

C5_Witness ==
  /\ phase = "done"
  /\ Len(log) >= 1
  /\ log[Len(log)].tag = "Some"
  /\ \E i \in HandlesIn("pci") :
       /\ handles[i].item = fi
       /\ handles[i].driver = "StubSecond"
       /\ \E j \in 1..Len(AllDrivers(registry)) :
            /\ j > IndexOf(AllDrivers(registry), handles[i].driver)
            /\ AllDrivers(registry)[j] = "StubFirst"
            /\ probe_pci(AllDrivers(registry)[j], handles[i].fn.bar0,
                         handles[i].fn.info, TRUE).tag = "Some"

\* C6: an operation a driver does not implement answers "no match":
\* RamDiskDriver and BcmSdhciDriver in the MMIO and PCI passes, IxgbeDriver
\* and IgbDriver in the global and MMIO passes; a driver's handles come
\* only from the pass it implements.
C6_DefaultNoMatch ==
  /\ \A i \in 1..Len(log) :
       /\ (log[i].driver \in BlockDrivers /\ log[i].pass \in {"mmio", "pci"})
            => log[i].tag = "None"
       /\ (log[i].driver \in DmaDrivers /\ log[i].pass \in {"global", "mmio"})
            => log[i].tag = "None"
  /\ \A i \in 1..Len(handles) :
       /\ handles[i].driver \in BlockDrivers => handles[i].pass = "global"
       /\ handles[i].driver \in DmaDrivers => handles[i].pass = "pci"

C6_Witness ==
  /\ phase = "done"
  /\ \E i \in 1..Len(log) :
       /\ log[i].driver = "RamDiskDriver"
       /\ log[i].pass = "pci"
       /\ log[i].tag = "None"
  /\ \E i \in HandlesIn("global") : handles[i].driver = "RamDiskDriver"
  /\ \E i \in HandlesIn("pci") : handles[i].driver = "IgbDriver"

\* C9: with only the ramdisk block driver enabled, a complete run ends with
\* exactly one handle: a block handle from RamDiskDriver::probe_global,
\* backed by 0x100_0000 bytes; the MMIO and PCI passes add nothing.
OnlyRamDisk ==
  [net |-> <<>>, block |-> <<"RamDiskDriver">>, display |-> <<>>]

RamDiskHandle ==
  [class |-> "block", driver |-> "RamDiskDriver", pass |-> "global",
   item |-> 1, fn |-> NoFn, base |-> 0, size |-> 16777216,
   queues |-> <<0, 0>>]

C9_OnlyRamDisk ==
  registry = OnlyRamDisk
  => /\ phase # "panic"
     /\ (phase \in {"mmio", "pci", "done"} => handles = <<RamDiskHandle>>)
     /\ HandlesOf("net") = {}
     /\ HandlesOf("display") = {}
     /\ HandlesIn("mmio") = {}
     /\ HandlesIn("pci") = {}

C9_Witness ==
  /\ registry = OnlyRamDisk
  /\ phase = "done"
  /\ fi >= 1
  /\ Len(log) = 1
  /\ log[1].fn.info = MatchPair("IxgbeDriver")
  /\ handles = <<RamDiskHandle>>

\* C10 as stated: for every device class, the bound handles of the class
\* never outnumber the registered drivers of the class.
C10_HandlesBoundedByDrivers ==
  \A c \in Classes : Cardinality(HandlesOf(c)) <= Len(registry[c])

\* C10 as amended: per class, each registered driver contributes at most
\* one handle in the global pass and each MMIO region and each enumerated
\* PCI function at most one handle, so the handles of a class number at
\* most its registered drivers plus the regions and functions probed; every
\* handle of a class comes from a driver registered in that class.
C10_HandlesBoundedByProbes ==
  /\ \A c \in Classes :
       /\ Cardinality(HandlesOf(c) \cap HandlesIn("global"))
            <= Len(registry[c])
       /\ Cardinality(HandlesOf(c))
            <= Len(registry[c]) + (ri - 1) + fi
       /\ \A i \in HandlesOf(c) :
            \E k \in 1..Len(registry[c]) : registry[c][k] = handles[i].driver
  /\ Cardinality(HandlesIn("mmio")) <= ri - 1
  /\ Cardinality(HandlesIn("pci")) <= fi
  /\ \A i, j \in 1..Len(handles) :
       (handles[i].pass = handles[j].pass /\ handles[i].item = handles[j].item)
       => i = j

C10_Witness ==
  /\ phase = "done"
  /\ Len(registry.net) = 1
  /\ Cardinality(HandlesOf("net")) = 2
  /\ handles[1].fn.info = handles[2].fn.info

(***************************************************************************)
(* Properties of the DMA adapter (SpecDma)                                 *)
(***************************************************************************)
RECURSIVE SumSizes(_)
SumSizes(recs) ==
  IF recs = {} THEN 0
  ELSE LET r == CHOOSE x \in recs : TRUE
       IN r.size + SumSizes(recs \ {r})

\* C4: when the coherent allocator fails, dma_alloc returns bus address 0
\* with the dangling pointer, does not panic and leaves the allocator's
\* bookkeeping as it was; when the allocator succeeds, dma_alloc returns
\* exactly the allocator's bus and CPU address.
C4_AllocSentinelOrExact ==
  (last.op = "dma_alloc" /\ last.allocCalled)
  => IF last.allocRes.ok
     THEN /\ last.tag = "Ret"
          /\ last.r1 = last.allocRes.info.bus_addr
          /\ last.r2 = last.allocRes.info.cpu_addr
     ELSE /\ last.tag = "Ret"
          /\ ~apanic
          /\ last.r1 = 0
          /\ last.r2 = DANGLING
          /\ \A b \in live : b.info.cpu_addr # last.r2
          /\ Bookkeeping = last.pre

C4_Witness ==
  /\ last.op = "dma_alloc"
  /\ last.allocCalled
  /\ ~last.allocRes.ok
  /\ last.size = 1
  /\ live # {}
  /\ last.r1 = 0

\* C7: with every allocation later released by dma_dealloc on the exact
\* triple dma_alloc returned, the allocator's outstanding bytes are those
\* of the records still held and return to their initial value when none
\* is held; each dma_dealloc releases the size, the alignment 8 and the
\* address pair of the matching allocation, and returns 0.
C7_AllocDeallocRoundTrip ==
  /\ ~mismatch
  /\ outstanding = SumSizes(held)
  /\ (held = {} => (outstanding = 0 /\ live = {}))
  /\ Cardinality(live) = Cardinality(held)
  /\ (last.op = "dma_dealloc" /\ last.tag = "Ret")
       => /\ last.r1 = 0
          /\ last.layout = [ok |-> TRUE, size |-> last.size, align |-> 8]
          /\ [info |-> DMAInfo(last.a2, last.a1), layout |-> last.layout]
               \in last.pre.live
          /\ outstanding = last.pre.outstanding - last.size

C7_Witness ==
  /\ last.op = "dma_dealloc"
  /\ last.tag = "Ret"
  /\ last.size > 0
  /\ last.pre.outstanding = last.size
  /\ held = {}
  /\ outstanding = 0

\* C8: mmio_virt_to_phys gives back the physical address mmio_phys_to_virt
\* was given; both are the kernel's mapping of the address alone, whatever
\* the size argument, neither fails, and neither touches the allocator.
C8_AddressRoundTrip ==
  /\ last.op = "mmio_phys_to_virt"
       => /\ last.tag = "Ret"
          /\ last.r1 = phys_to_virt(last.a1)
          /\ ~last.allocCalled
          /\ Bookkeeping = last.pre
  /\ last.op = "mmio_virt_to_phys"
       => /\ last.tag = "Ret"
          /\ last.r1 = last.a2
          /\ last.r1 = virt_to_phys(last.a1)
          /\ ~last.allocCalled
          /\ Bookkeeping = last.pre
  /\ (last.op \in {"mmio_phys_to_virt", "mmio_virt_to_phys"}) => ~apanic

C8_Witness ==
  /\ last.op = "mmio_virt_to_phys"
  /\ last.size > 0
  /\ last.a2 > 0
  /\ last.r1 = last.a2
  /\ live # {}

====
